---- MODULE Spec2Model ----
(***************************************************************************)
(* A model of hyperdash/experiment.py: the Experiment facade (metric,      *)
(* param, iter, end), its ExperimentRunner, the background thread that     *)
(* runs the HyperDash loop and posts on done_chan, the redirection of      *)
(* sys.stdout / sys.stderr, and the lazy Keras entry of Callbacks.         *)
(*                                                                         *)
(* Caller code runs on threads; every statement of a method that reads or  *)
(* writes shared state is one step of the calling thread.  The worker of   *)
(* an experiment is a thread of its own.                                   *)
(***************************************************************************)
EXTENDS Integers, Sequences, FiniteSets, TLC

\* ------------------------------------------------------------------ bounds
NumExp == 2        \* Experiment instances that may be constructed
NumThreads == 2    \* caller threads
MaxCalls == 2      \* calls of metric, param and iter made in a run
MaxLoads == 2      \* import attempts made per experiment
MaxClock == 2      \* largest reading of datetime.now()

Exps == 1..NumExp
Threads == 1..NumThreads
\* The thread that runs the caller's program.
MainThread == CHOOSE t \in Threads : \A u \in Threads : t <= u
\* exp_thread of experiment e, as the holder of a lock.
WorkerThread(e) == NumThreads + e

\* ----------------------------------------------------------- python values
\* None is the empty tuple, a number n the one-element tuple <<n>>.
PyNone == <<>>
PyNum(n) == <<n>>
PyVals == {PyNone, PyNum(0), PyNum(1)}

\* bool(v) of a value: None and 0 are false.
Truthy(v) == v # PyNone /\ v # PyNum(0)

\* --------------------------------------------------------------- streams
\* The identities of the objects sys.stdout and sys.stderr can be bound to.
OrigOut == [kind |-> "stdout", owner |-> 0]
OrigErr == [kind |-> "stderr", owner |-> 0]
UserOut == [kind |-> "user_out", owner |-> 0]
UserErr == [kind |-> "user_err", owner |-> 0]
\* out = [IOBuffer(), IOBuffer()]: two fresh buffers per constructor call.
OutBuffers(e) == << [kind |-> "iobuffer0", owner |-> e],
                    [kind |-> "iobuffer1", owner |-> e] >>

KERAS == "keras"

\* A dict: a function on its keys.  d.get(k) gives None for a missing key.
EmptyDict == [k \in {} |-> 0]
DictGet(d, k, none) == IF k \in DOMAIN d THEN d[k] ELSE none

VARIABLES
  sys_stdout, sys_stderr,   \* the process-wide streams
  constructed,              \* constructed[e]: Experiment.__init__ has run for e
  capture_io,               \* capture_io[e]: the constructor's argument
  old_out, old_err,         \* _old_out, _old_err
  before,                   \* history: the streams when the constructor was called
  ended,                    \* _ended
  lock,                     \* Experiment.lock: 0 (free) or the holding thread
  runner,                   \* _experiment_runner: done, exit_cleanly, times
  done_chan,                \* done_chan: the queue's items
  worker,                   \* where exp_thread is in run()
  callbacks,                \* Callbacks._callbacks
  adapters,                 \* number of _KerasCallback instances created
  hd_client,                \* the calls the delivery client received
  warnings,                 \* number of _logger.warn calls
  clock,                    \* the last reading of datetime.now()
  thread,                   \* thread[t]: the frame of caller thread t
  last,                     \* last[t]: the last call of t that returned
  polled,                   \* polled[e]: the worker's frame of is_done()
  puts, gets,               \* history: done_chan.put / done_chan.get calls
  restores,                 \* history: executions of the assignment of line 157
  loads,                    \* history: outcomes of the import of line 202
  first_end,                \* history: the first end() invocation on e
  foreign                   \* history: the streams were assigned by another party

vars == << sys_stdout, sys_stderr, constructed, capture_io, old_out, old_err,
           ended, lock, runner, done_chan, worker, callbacks, adapters,
           hd_client, warnings, clock, thread, last, puts, gets, restores,
           loads, first_end, foreign, before, polled >>

streamVars == << sys_stdout, sys_stderr >>
expVars == << constructed, capture_io, old_out, old_err, before >>
workerVars == << worker, clock, puts, polled >>
cbVars == << callbacks, adapters, loads >>
clientVars == << hd_client, warnings >>

\* ----------------------------------------------------------------- frames
Idle == [at |-> "idle", e |-> 0, op |-> "none", todo |-> <<>>,
         first |-> FALSE, base |-> 0, logs |-> [given |-> FALSE, d |-> EmptyDict]]

\* What a call gave back: None, a value, an adapter instance, or an exception.
\* last[t].op names the call: "init", "end" (end() waited), "end_noop" (end()
\* found _ended set), "metric", "param", "iter", "epoch", "keras" (the read
\* attempted the import), "keras_cached" (the read found an entry).
\* An adapter is the n-th _KerasCallback made for an experiment, and holds that
\* experiment in its _exp (line 215).
RetNone == [k |-> "None", v |-> 0, exp |-> 0]
RetVal(n) == [k |-> "value", v |-> n, exp |-> 0]
RetAdapter(e, n) == [k |-> "adapter", v |-> n, exp |-> e]
RetRaise == [k |-> "raise", v |-> 0, exp |-> 0]
PyFalse == [k |-> "False", v |-> 0, exp |-> 0]

NoLast == [op |-> "none", e |-> 0, ret |-> RetNone]

\* ExperimentRunner.__init__ with its defaults.
NewRunner == [done |-> FALSE, exit_cleanly |-> TRUE, lock |-> 0,
              start_time |-> PyNone, end_time |-> PyNone]

\* The worker's frame of ExperimentRunner.is_done: where it is, and the pair
\* it has read (the last pair returned, when it is not inside the call).
NoPoll == [at |-> "idle", exit_cleanly |-> TRUE, done |-> FALSE,
           returned |-> FALSE]

Init ==
  /\ sys_stdout = OrigOut
  /\ sys_stderr = OrigErr
  /\ constructed = [e \in Exps |-> FALSE]
  /\ capture_io = [e \in Exps |-> FALSE]
  /\ old_out = [e \in Exps |-> OrigOut]
  /\ old_err = [e \in Exps |-> OrigErr]
  /\ ended = [e \in Exps |-> FALSE]
  /\ lock = [e \in Exps |-> 0]
  /\ runner = [e \in Exps |-> NewRunner]
  /\ done_chan = [e \in Exps |-> <<>>]
  /\ worker = [e \in Exps |-> "none"]
  /\ callbacks = [e \in Exps |-> EmptyDict]
  /\ adapters = [e \in Exps |-> 0]
  /\ hd_client = [e \in Exps |-> <<>>]
  /\ warnings = [e \in Exps |-> 0]
  /\ clock = 0
  /\ thread = [t \in Threads |-> Idle]
  /\ last = [t \in Threads |-> NoLast]
  /\ polled = [e \in Exps |-> NoPoll]
  /\ puts = [e \in Exps |-> 0]
  /\ gets = [e \in Exps |-> 0]
  /\ restores = [e \in Exps |-> 0]
  /\ loads = [e \in Exps |-> <<>>]
  /\ first_end = [e \in Exps |-> "none"]
  /\ foreign = [e \in Exps |-> FALSE]
  /\ before = [e \in Exps |-> << OrigOut, OrigErr >>]

\* ------------------------------------------------------------- constructor
\* Line 97: self._old_out, self._old_err = sys.stdout, sys.stderr
SavedOriginal == << OrigOut, OrigErr >>
Saved == << sys_stdout, sys_stderr >>

\* Lines 104-106: the streams after the constructor, <<stdout, stderr>>.
RedirectAlways(e, cap) == OutBuffers(e)
Redirect(e, cap) == IF cap THEN OutBuffers(e) ELSE << sys_stdout, sys_stderr >>

\* Experiment.__init__(model_name, api_key_getter, capture_io=cap), run by
\* thread t for the instance e.  Instances are numbered in construction order.
Construct(t, e, cap) ==
  /\ thread[t].at = "idle"
  /\ ~constructed[e]
  /\ \A f \in Exps : f < e => constructed[f]
  /\ constructed' = [constructed EXCEPT ![e] = TRUE]
  /\ capture_io' = [capture_io EXCEPT ![e] = cap]
  /\ callbacks' = [callbacks EXCEPT ![e] = EmptyDict]
  /\ runner' = [runner EXCEPT ![e] = NewRunner]
  /\ lock' = [lock EXCEPT ![e] = 0]
  /\ old_out' = [old_out EXCEPT ![e] = Saved[1]]
  /\ old_err' = [old_err EXCEPT ![e] = Saved[2]]
  /\ before' = [before EXCEPT ![e] = << sys_stdout, sys_stderr >>]
  /\ sys_stdout' = Redirect(e, cap)[1]
  /\ sys_stderr' = Redirect(e, cap)[2]
  /\ done_chan' = [done_chan EXCEPT ![e] = <<>>]
  /\ worker' = [worker EXCEPT ![e] = "spawned"]
  /\ polled' = [polled EXCEPT ![e] = NoPoll]
  /\ ended' = [ended EXCEPT ![e] = FALSE]
  /\ foreign' = [f \in Exps |->
                   IF f # e /\ constructed[f] /\ cap THEN TRUE ELSE foreign[f]]
  /\ last' = [last EXCEPT ![t] = [op |-> "init", e |-> e, ret |-> RetNone]]
  /\ UNCHANGED << adapters, hd_client, warnings, clock, thread, puts, gets,
                  restores, loads, first_end >>

\* Caller code outside this module binds sys.stdout and sys.stderr itself.
SetStreams(t) ==
  /\ thread[t].at = "idle"
  /\ << sys_stdout, sys_stderr >> # << UserOut, UserErr >>
  /\ sys_stdout' = UserOut
  /\ sys_stderr' = UserErr
  /\ foreign' = [f \in Exps |-> constructed[f] \/ foreign[f]]
  /\ UNCHANGED << expVars, ended, lock, runner, done_chan, workerVars, cbVars,
                  clientVars, thread, last, gets, restores, first_end >>

\* ------------------------------------------------------------------ worker
\* Time passes: datetime.now() reads a later time from here on.
Tick ==
  /\ clock < MaxClock
  /\ clock' = clock + 1
  /\ UNCHANGED << streamVars, expVars, ended, lock, runner, done_chan, worker,
                  puts, polled, cbVars, clientVars, thread, last, gets,
                  restores, first_end, foreign >>

\* Lines 124, 126: datetime.now()
Now == PyNum(clock)

\* Lines 60-64: _set_start_time and _set_end_time on the runner r.
SetStartTime(r, t) == [r EXCEPT !.start_time = t]
SetEndTimeAsStart(r, t) == [r EXCEPT !.start_time = t]
SetEndTime(r, t) == [r EXCEPT !.end_time = t]

\* Lines 57-58: get_start_and_end_time()
GetStartAndEndTime(e) == << runner[e].start_time, runner[e].end_time >>

\* Line 124: self._experiment_runner._set_start_time(datetime.now())
WorkerStart(e) ==
  /\ worker[e] = "spawned"
  /\ runner' = [runner EXCEPT ![e] = SetStartTime(@, Now)]
  /\ worker' = [worker EXCEPT ![e] = "run"]
  /\ UNCHANGED << streamVars, expVars, ended, lock, done_chan, cbVars,
                  clientVars, clock, polled, thread, last, puts, gets,
                  restores, first_end, foreign >>

\* Lines 42-44: is_done(), called by the run loop of line 125.  with
\* self.lock (acquire).
IsDoneAcquire(e) ==
  /\ worker[e] = "run"
  /\ polled[e].at = "idle"
  /\ runner[e].lock = 0
  /\ runner' = [runner EXCEPT ![e].lock = WorkerThread(e)]
  /\ polled' = [polled EXCEPT ![e].at = "is_done_clean"]
  /\ UNCHANGED << streamVars, expVars, ended, lock, done_chan, worker, clock,
                  puts, cbVars, clientVars, thread, last, gets, restores,
                  first_end, foreign >>

\* Line 44, first load: self.exit_cleanly
IsDoneReadClean(e) ==
  /\ polled[e].at = "is_done_clean"
  /\ polled' = [polled EXCEPT ![e].at = "is_done_done",
                              ![e].exit_cleanly = runner[e].exit_cleanly]
  /\ UNCHANGED << streamVars, expVars, ended, lock, runner, done_chan, worker,
                  clock, puts, cbVars, clientVars, thread, last, gets,
                  restores, first_end, foreign >>

\* Line 44, second load: self.done
IsDoneReadDone(e) ==
  /\ polled[e].at = "is_done_done"
  /\ polled' = [polled EXCEPT ![e].at = "is_done_unlock",
                              ![e].done = runner[e].done]
  /\ UNCHANGED << streamVars, expVars, ended, lock, runner, done_chan, worker,
                  clock, puts, cbVars, clientVars, thread, last, gets,
                  restores, first_end, foreign >>

\* Lines 43-44: with self.lock (release); the pair is returned.
IsDoneRelease(e) ==
  /\ polled[e].at = "is_done_unlock"
  /\ runner' = [runner EXCEPT ![e].lock = 0]
  /\ polled' = [polled EXCEPT ![e].at = "idle", ![e].returned = TRUE]
  /\ UNCHANGED << streamVars, expVars, ended, lock, done_chan, worker, clock,
                  puts, cbVars, clientVars, thread, last, gets, restores,
                  first_end, foreign >>

\* Lines 46-52: get_return_val() or get_exception(), called by the run loop.
\* with self.lock (acquire).
GetterAcquire(e) ==
  /\ worker[e] = "run"
  /\ polled[e].at = "idle"
  /\ runner[e].lock = 0
  /\ runner' = [runner EXCEPT ![e].lock = WorkerThread(e)]
  /\ polled' = [polled EXCEPT ![e].at = "getter_unlock"]
  /\ UNCHANGED << streamVars, expVars, ended, lock, done_chan, worker, clock,
                  puts, cbVars, clientVars, thread, last, gets, restores,
                  first_end, foreign >>

\* Lines 48, 52: return None, and with self.lock (release).
GetterRelease(e) ==
  /\ polled[e].at = "getter_unlock"
  /\ runner' = [runner EXCEPT ![e].lock = 0]
  /\ polled' = [polled EXCEPT ![e].at = "idle"]
  /\ UNCHANGED << streamVars, expVars, ended, lock, done_chan, worker, clock,
                  puts, cbVars, clientVars, thread, last, gets, restores,
                  first_end, foreign >>

\* One step of the worker inside a method of the runner.
PollStep(e) ==
  \/ IsDoneAcquire(e) \/ IsDoneReadClean(e) \/ IsDoneReadDone(e)
  \/ IsDoneRelease(e) \/ GetterAcquire(e) \/ GetterRelease(e)

\* Line 125: self._hd.run() returns, never returns, or raises.
HdRun(e, outcome) ==
  /\ worker[e] = "run"
  /\ polled[e].at = "idle"
  /\ worker' = [worker EXCEPT ![e] =
                  CASE outcome = "returns" -> "ran"
                    [] outcome = "hangs" -> "hung"
                    [] OTHER -> "dead"]
  /\ UNCHANGED << streamVars, expVars, ended, lock, runner, done_chan, cbVars,
                  clientVars, clock, polled, thread, last, puts, gets,
                  restores, first_end, foreign >>

\* Line 126: self._experiment_runner._set_end_time(datetime.now())
WorkerSetEnd(e) ==
  /\ worker[e] = "ran"
  /\ runner' = [runner EXCEPT ![e] = SetEndTime(@, Now)]
  /\ worker' = [worker EXCEPT ![e] = "stamped"]
  /\ UNCHANGED << streamVars, expVars, ended, lock, done_chan, cbVars,
                  clientVars, clock, polled, thread, last, puts, gets,
                  restores, first_end, foreign >>

\* Line 127: the items run() puts on done_chan.
PostedTwice == << TRUE, TRUE >>
Posted == << TRUE >>

\* Line 127: self.done_chan.put(True); the thread's target then returns.
WorkerPut(e) ==
  /\ worker[e] = "stamped"
  /\ done_chan' = [done_chan EXCEPT ![e] = @ \o Posted]
  /\ puts' = [puts EXCEPT ![e] = @ + Len(Posted)]
  /\ worker' = [worker EXCEPT ![e] = "exited"]
  /\ UNCHANGED << streamVars, expVars, ended, lock, runner, cbVars,
                  clientVars, clock, polled, thread, last, gets, restores,
                  first_end, foreign >>

\* The run loop has returned.
RunLoopReturned(e) == worker[e] \in {"ran", "stamped", "exited"}

\* ------------------------------------------------------------------ frames
\* Thread t is at label `at` of a call on e.
Frame(at, e, op) == [Idle EXCEPT !.at = at, !.e = e, !.op = op]

\* The call of thread t returns ret to its caller.
Return(t, op, e, ret) ==
  /\ thread' = [thread EXCEPT ![t] = Idle]
  /\ last' = [last EXCEPT ![t] = [op |-> op, e |-> e, ret |-> ret]]

Goto(t, at) == thread' = [thread EXCEPT ![t].at = at]

\* --------------------------------------------------------------------- end
\* Line 152: if self._ended
EndGuardMissing(e) == FALSE
EndGuard(e) == ended[e]

\* Line 157: the right-hand side of the assignment, <<stdout, stderr>>.
RestoredSwapped(e) == << old_err[e], old_out[e] >>
Restored(e) == << old_out[e], old_err[e] >>

\* Lines 157-159: the statements inside `with self.lock`, in order.  The
\* assignment of line 157 is "end_out" (and its second store "end_err").
EndBodyDoneFirst == << "end_done", "end_out", "end_clean" >>
EndBodyWithWait == << "end_out", "end_clean", "end_done", "end_wait" >>
EndBody == << "end_out", "end_clean", "end_done" >>

\* What follows statement s of the with block: the next statement, or the
\* release of the lock after the last one.
AfterStmt(s) ==
  LET i == CHOOSE j \in 1..Len(EndBody) : EndBody[j] = s
  IN IF i < Len(EndBody) THEN EndBody[i + 1] ELSE "end_unlock"

\* Line 162: done_chan.get(block=True, timeout=None) can take an item.
ChanReadyNoBlock(e) == TRUE
ChanReadyTwoItems(e) == Len(done_chan[e]) > 1
ChanReady(e) == done_chan[e] # <<>>

\* Lines 151-153: end() is called; an ended experiment returns at once.
EndCall(t, e) ==
  /\ thread[t].at = "idle"
  /\ constructed[e]
  /\ IF EndGuard(e)
       THEN /\ Return(t, "end_noop", e, RetNone)
            /\ first_end' = [first_end EXCEPT ![e] =
                               IF @ = "none" THEN "returned" ELSE @]
       ELSE /\ thread' = [thread EXCEPT ![t] =
                            [Frame("end_set", e, "end") EXCEPT
                               !.first = (first_end[e] = "none")]]
            /\ first_end' = [first_end EXCEPT ![e] =
                               IF @ = "none" THEN "running" ELSE @]
            /\ UNCHANGED last
  /\ UNCHANGED << streamVars, expVars, ended, lock, runner, done_chan,
                  workerVars, cbVars, clientVars, gets, restores, foreign >>

\* Line 155: self._ended = True
EndSetEnded(t) ==
  /\ thread[t].at = "end_set"
  /\ ended' = [ended EXCEPT ![thread[t].e] = TRUE]
  /\ Goto(t, "end_lock")
  /\ UNCHANGED << streamVars, expVars, lock, runner, done_chan, workerVars,
                  cbVars, clientVars, last, gets, restores, first_end,
                  foreign >>

\* Line 156: with self.lock (acquire)
EndAcquire(t) ==
  /\ thread[t].at = "end_lock"
  /\ lock[thread[t].e] = 0
  /\ lock' = [lock EXCEPT ![thread[t].e] = t]
  /\ Goto(t, EndBody[1])
  /\ UNCHANGED << streamVars, expVars, ended, runner, done_chan, workerVars,
                  cbVars, clientVars, last, gets, restores, first_end,
                  foreign >>

\* Line 157, first store: sys.stdout = self._old_out
EndRestoreOut(t) ==
  LET e == thread[t].e IN
  /\ thread[t].at = "end_out"
  /\ sys_stdout' = Restored(e)[1]
  /\ Goto(t, "end_err")
  /\ foreign' = [f \in Exps |-> (f # e /\ constructed[f]) \/ foreign[f]]
  /\ UNCHANGED << sys_stderr, expVars, ended, lock, runner, done_chan,
                  workerVars, cbVars, clientVars, last, gets, restores,
                  first_end >>

\* Line 157, second store: sys.stderr = self._old_err
EndRestoreErr(t) ==
  LET e == thread[t].e IN
  /\ thread[t].at = "end_err"
  /\ sys_stderr' = Restored(e)[2]
  /\ restores' = [restores EXCEPT ![e] = @ + 1]
  /\ Goto(t, AfterStmt("end_out"))
  /\ foreign' = [f \in Exps |-> (f # e /\ constructed[f]) \/ foreign[f]]
  /\ UNCHANGED << sys_stdout, expVars, ended, lock, runner, done_chan,
                  workerVars, cbVars, clientVars, last, gets, first_end >>

\* Line 158: self._experiment_runner.exit_cleanly = True
EndExitCleanly(t) ==
  /\ thread[t].at = "end_clean"
  /\ runner' = [runner EXCEPT ![thread[t].e].exit_cleanly = TRUE]
  /\ Goto(t, AfterStmt("end_clean"))
  /\ UNCHANGED << streamVars, expVars, ended, lock, done_chan, workerVars,
                  cbVars, clientVars, last, gets, restores, first_end,
                  foreign >>

\* Line 159: self._experiment_runner.done = True
EndSetDone(t) ==
  /\ thread[t].at = "end_done"
  /\ runner' = [runner EXCEPT ![thread[t].e].done = TRUE]
  /\ Goto(t, AfterStmt("end_done"))
  /\ UNCHANGED << streamVars, expVars, ended, lock, done_chan, workerVars,
                  cbVars, clientVars, last, gets, restores, first_end,
                  foreign >>

\* Line 156: with self.lock (release)
EndRelease(t) ==
  /\ thread[t].at = "end_unlock"
  /\ lock' = [lock EXCEPT ![thread[t].e] = 0]
  /\ Goto(t, "end_wait")
  /\ UNCHANGED << streamVars, expVars, ended, runner, done_chan, workerVars,
                  cbVars, clientVars, last, gets, restores, first_end,
                  foreign >>

\* Line 162: self.done_chan.get(block=True, timeout=None), then end() returns.
EndWait(t) ==
  LET e == thread[t].e IN
  /\ thread[t].at = "end_wait"
  /\ ChanReady(e)
  /\ done_chan' = [done_chan EXCEPT ![e] = IF @ = <<>> THEN @ ELSE Tail(@)]
  /\ gets' = [gets EXCEPT ![e] = @ + 1]
  /\ first_end' = [first_end EXCEPT ![e] =
                     IF thread[t].first THEN "returned" ELSE @]
  /\ Return(t, "end", e, RetNone)
  /\ UNCHANGED << streamVars, expVars, ended, lock, runner, workerVars,
                  cbVars, clientVars, restores, foreign >>

\* One step of thread t inside end().
EndStep(t) ==
  \/ EndSetEnded(t) \/ EndAcquire(t) \/ EndRestoreOut(t) \/ EndRestoreErr(t)
  \/ EndExitCleanly(t) \/ EndSetDone(t) \/ EndRelease(t) \/ EndWait(t)

\* ------------------------------------------------------ metric, param, iter
\* A call of metric(name, value, log), param(name, value, log) or
\* iter(n, log); iter's n is held in `value` and its `name` is unused.
Call(op, name, value, log) ==
  [op |-> op, name |-> name, value |-> value, log |-> log]

\* The calls caller code makes.
Calls == { Call("metric", "loss", PyNum(0), FALSE),
           Call("param", "lr", PyNum(1), TRUE),
           Call("iter", "", PyNum(1), FALSE) }

\* What a delivery-client operation gives back.
ClientResults == { RetNone, RetVal(1) }

\* The calls of metric, param and iter made so far: those the delivery
\* client received, those that ended in a warning, those under way.
RECURSIVE Answered(_)
Answered(S) ==
  IF S = {} THEN 0
  ELSE LET e == CHOOSE f \in S : TRUE
       IN Len(hd_client[e]) + warnings[e] + Answered(S \ {e})
RECURSIVE UnderWay(_)
UnderWay(S) ==
  IF S = {} THEN 0
  ELSE LET t == CHOOSE u \in S : TRUE
       IN Len(thread[t].todo) + UnderWay(S \ {t})

\* The run has room for n more calls.
Room(n) == Answered(Exps) + UnderWay(Threads) + n <= MaxCalls

\* Lines 134, 140, 146: if self._ended
IsEndedNever(e) == FALSE
IsEnded(e) == ended[e]

\* Lines 137, 143, 149: the operation and arguments handed to _hd_client.
ForwardedDefaultLog(c) == [c EXCEPT !.log = TRUE]
Forwarded(c) == c

\* Lines 137, 143, 149: what the method returns of the client's result r.
PassedThrough(r) == r

\* metric(...), param(...) or iter(...) is called on e with the arguments c.
Invoke(t, e, c) ==
  /\ thread[t].at = "idle"
  /\ constructed[e]
  /\ Room(1)
  /\ thread' = [thread EXCEPT ![t] =
                  [Frame("check", e, c.op) EXCEPT !.todo = << c >>,
                                                  !.base = Len(hd_client[e])]]
  /\ UNCHANGED << streamVars, expVars, ended, lock, runner, done_chan,
                  workerVars, cbVars, clientVars, last, gets, restores,
                  first_end, foreign >>

\* The call at the head of the frame's list is over: the next one of an
\* epoch event starts, or the method returns ret.
Finish(t, ret) ==
  IF Len(thread[t].todo) > 1
    THEN /\ thread' = [thread EXCEPT ![t].at = "check",
                                     ![t].todo = Tail(@)]
         /\ UNCHANGED last
    ELSE Return(t, thread[t].op, thread[t].e,
                IF thread[t].op = "epoch" THEN RetNone ELSE ret)

\* Lines 134-136 (140-142, 146-148): the check of _ended; an ended
\* experiment warns and returns None.
Check(t) ==
  LET e == thread[t].e IN
  /\ thread[t].at = "check"
  /\ IF IsEnded(e)
       THEN /\ warnings' = [warnings EXCEPT ![e] = @ + 1]
            /\ Finish(t, RetNone)
       ELSE /\ Goto(t, "fwd")
            /\ UNCHANGED << warnings, last >>
  /\ UNCHANGED << streamVars, expVars, ended, lock, runner, done_chan,
                  workerVars, cbVars, hd_client, gets, restores, first_end,
                  foreign >>

\* Lines 137, 143, 149: return self._hd_client.<op>(...), which gives back r.
Forward(t, r) ==
  LET e == thread[t].e IN
  /\ thread[t].at = "fwd"
  /\ hd_client' = [hd_client EXCEPT ![e] =
                     Append(@, Forwarded(Head(thread[t].todo)))]
  /\ Finish(t, PassedThrough(r))
  /\ UNCHANGED << streamVars, expVars, ended, lock, runner, done_chan,
                  workerVars, cbVars, warnings, gets, restores, first_end,
                  foreign >>

\* --------------------------------------------------------- Callbacks.keras
\* Line 196: cb is False
IsUnavailableNever(cb) == FALSE
IsUnavailable(cb) == cb = PyFalse

\* Line 199: not cb (None and False are false, an adapter instance is true)
NotCbAlways(cb) == TRUE
NotCb(cb) == cb.k \in {"None", "False"}

\* Line 230: the exceptions of the import that the except clause catches.
Catches(outcome) == outcome = "ImportError"

\* Line 232: what is stored for a caught failure.
UnavailableMarkNone == EmptyDict
UnavailableMark == KERAS :> PyFalse

\* How `from keras.callbacks import Callback` can end: it succeeds, raises
\* ImportError (keras is not installed), or raises another exception.
ImportOutcomes == {"ok", "ImportError", "OtherError"}

\* Threads inside the import for e.
Importing(e) ==
  Cardinality({t \in Threads : thread[t].at = "keras_import" /\ thread[t].e = e})

\* Lines 194-199 and 234: the property is read; a cached entry is returned.
KerasGet(t, e) ==
  LET cb == DictGet(callbacks[e], KERAS, RetNone) IN
  /\ thread[t].at = "idle"
  /\ constructed[e]
  /\ IF IsUnavailable(cb) THEN Return(t, "keras_cached", e, RetNone)
     ELSE IF NotCb(cb)
       THEN /\ Len(loads[e]) + Importing(e) < MaxLoads
            /\ thread' = [thread EXCEPT ![t] = Frame("keras_import", e, "keras")]
            /\ UNCHANGED last
       ELSE Return(t, "keras_cached", e, cb)
  /\ UNCHANGED << streamVars, expVars, ended, lock, runner, done_chan,
                  workerVars, cbVars, clientVars, gets, restores, first_end,
                  foreign >>

\* Line 227: cb = _KerasCallback(self._exp), a new instance bound to e.
NewAdapter(e) == RetAdapter(e, adapters[e] + 1)

\* Lines 201-233: the import is attempted and ends with `outcome`.
KerasImport(t, outcome) ==
  LET e == thread[t].e IN
  /\ thread[t].at = "keras_import"
  /\ loads' = [loads EXCEPT ![e] = Append(@, outcome)]
  /\ IF outcome = "ok"
       THEN /\ adapters' = [adapters EXCEPT ![e] = @ + 1]
            /\ callbacks' = [callbacks EXCEPT ![e] =
                               KERAS :> NewAdapter(e)]
            /\ Return(t, "keras", e, NewAdapter(e))
       ELSE IF Catches(outcome)
         THEN /\ callbacks' = [callbacks EXCEPT ![e] = UnavailableMark]
              /\ Return(t, "keras", e, RetNone)
              /\ UNCHANGED adapters
         ELSE /\ Return(t, "keras", e, RetRaise)
              /\ UNCHANGED << callbacks, adapters >>
  /\ UNCHANGED << streamVars, expVars, ended, lock, runner, done_chan,
                  workerVars, clientVars, gets, restores, first_end,
                  foreign >>

\* ------------------------------------------------ _KerasCallback.on_epoch_end
\* The payloads of an epoch event: logs=None, or a dict over these keys.
ReportedKeys == {"val_accuracy", "val_loss"}
NoLogs == [given |-> FALSE, d |-> EmptyDict]
Payloads ==
  {NoLogs} \cup
  { [given |-> TRUE, d |-> f @@ g] :
      f \in UNION { [S -> PyVals] : S \in SUBSET ReportedKeys },
      g \in { EmptyDict, "loss" :> PyNum(1) } }

\* Lines 218-219: if not logs: logs = {}
LogsDict(logs) ==
  IF ~logs.given \/ DOMAIN logs.d = {} THEN EmptyDict ELSE logs.d

\* Lines 223, 225: val is not None
PresentIfTruthy(v) == Truthy(v)
Present(v) == v # PyNone

\* Lines 220-226: the metric calls on_epoch_end makes, in order.
Reports(logs) ==
  LET val_acc == DictGet(LogsDict(logs), "val_accuracy", PyNone)
      val_loss == DictGet(LogsDict(logs), "val_loss", PyNone)
  IN (IF Present(val_acc)
        THEN << Call("metric", "val_accuracy", val_acc, TRUE) >> ELSE << >>)
     \o (IF Present(val_loss)
        THEN << Call("metric", "val_loss", val_loss, TRUE) >> ELSE << >>)

\* Line 217: an adapter bound to e receives on_epoch_end(epoch, logs).
EpochEnd(t, e, logs) ==
  /\ thread[t].at = "idle"
  /\ adapters[e] > 0
  /\ Room(2)
  /\ thread' = [thread EXCEPT ![t] =
                  [Frame("epoch", e, "epoch") EXCEPT
                     !.logs = logs, !.base = Len(hd_client[e])]]
  /\ UNCHANGED << streamVars, expVars, ended, lock, runner, done_chan,
                  workerVars, cbVars, clientVars, last, gets, restores,
                  first_end, foreign >>

\* Lines 218-226: the entries are read; with none to report the event is over.
EpochExtract(t) ==
  /\ thread[t].at = "epoch"
  /\ IF Reports(thread[t].logs) = << >>
       THEN Return(t, "epoch", thread[t].e, RetNone)
       ELSE /\ thread' = [thread EXCEPT ![t].at = "check",
                                        ![t].todo = Reports(thread[t].logs)]
            /\ UNCHANGED last
  /\ UNCHANGED << streamVars, expVars, ended, lock, runner, done_chan,
                  workerVars, cbVars, clientVars, gets, restores, first_end,
                  foreign >>

\* ---------------------------------------------------------- specifications
WorkerStep(e) ==
  \/ WorkerStart(e)
  \/ \E outcome \in {"returns", "hangs", "raises"} : HdRun(e, outcome)
  \/ WorkerSetEnd(e)
  \/ WorkerPut(e)

\* One caller thread, and a worker per experiment.  The caller constructs
\* and ends experiments in any order, and may bind the process streams itself.
Next ==
  \/ \E e \in Exps, cap \in BOOLEAN : Construct(MainThread, e, cap)
  \/ SetStreams(MainThread)
  \/ \E e \in Exps : EndCall(MainThread, e)
  \/ EndStep(MainThread)
  \/ \E e \in Exps : WorkerStep(e)

Spec == Init /\ [][Next]_vars

\* Every experiment constructed so far has ended and its worker has exited.
NoneLive == \A f \in Exps : constructed[f] => gets[f] > 0

\* The caller uses one experiment after the other and reports to it.
NextCalls ==
  \/ \E e \in Exps, cap \in BOOLEAN : NoneLive /\ Construct(MainThread, e, cap)
  \/ \E e \in Exps, c \in Calls : Invoke(MainThread, e, c)
  \/ Check(MainThread)
  \/ \E r \in ClientResults : Forward(MainThread, r)
  \/ \E e \in Exps : EndCall(MainThread, e)
  \/ EndStep(MainThread)
  \/ \E e \in Exps : WorkerStep(e)

SpecCalls == Init /\ [][NextCalls]_vars

\* The caller constructs experiments and reads their keras property.
NextKeras ==
  \/ \E e \in Exps, cap \in BOOLEAN : Construct(MainThread, e, cap)
  \/ \E e \in Exps : KerasGet(MainThread, e)
  \/ \E outcome \in ImportOutcomes : KerasImport(MainThread, outcome)

SpecKeras == Init /\ [][NextKeras]_vars

\* Keras is installed.  The caller uses one experiment after the other, takes
\* its Keras callback and fires epoch events on it.
NextEpoch ==
  \/ \E e \in Exps : NoneLive /\ Construct(MainThread, e, FALSE)
  \/ \E e \in Exps : KerasGet(MainThread, e)
  \/ KerasImport(MainThread, "ok")
  \/ \E e \in Exps, logs \in Payloads : EpochEnd(MainThread, e, logs)
  \/ EpochExtract(MainThread)
  \/ Check(MainThread)
  \/ \E r \in ClientResults : Forward(MainThread, r)
  \/ \E e \in Exps : EndCall(MainThread, e)
  \/ EndStep(MainThread)
  \/ \E e \in Exps : WorkerStep(e)

SpecEpoch == Init /\ [][NextEpoch]_vars

\* The lifecycle of one experiment after the other, every thread scheduled
\* fairly: a thread that can take a step eventually takes one.
NextLive ==
  \/ \E e \in Exps, cap \in BOOLEAN : NoneLive /\ Construct(MainThread, e, cap)
  \/ \E e \in Exps : EndCall(MainThread, e)
  \/ EndStep(MainThread)
  \/ \E e \in Exps : WorkerStep(e)

SpecLive ==
  /\ Init /\ [][NextLive]_vars
  /\ WF_vars(EndStep(MainThread))
  /\ \A e \in Exps : WF_vars(WorkerStep(e))

\* Several caller threads share the experiments, used one after the other:
\* any of them constructs and any of them calls end().
NextThreads ==
  \/ \E t \in Threads, e \in Exps, cap \in BOOLEAN :
       NoneLive /\ Construct(t, e, cap)
  \/ \E t \in Threads, e \in Exps : EndCall(t, e)
  \/ \E t \in Threads : EndStep(t)
  \/ \E e \in Exps : WorkerStep(e)

SpecThreads == Init /\ [][NextThreads]_vars

\* The caller threads other than the main one.
OtherThreads == Threads \ {MainThread}

\* The main thread constructs one experiment after the other and reports to
\* it, while another thread calls end() on it.
NextShared ==
  \/ \E e \in Exps, cap \in BOOLEAN : NoneLive /\ Construct(MainThread, e, cap)
  \/ \E e \in Exps, c \in Calls : Invoke(MainThread, e, c)
  \/ Check(MainThread)
  \/ \E r \in ClientResults : Forward(MainThread, r)
  \/ \E t \in OtherThreads, e \in Exps : EndCall(t, e)
  \/ \E t \in OtherThreads : EndStep(t)
  \/ \E e \in Exps : WorkerStep(e)

SpecShared == Init /\ [][NextShared]_vars

\* The lifecycle of one experiment after the other, while time passes.
NextClock ==
  \/ \E e \in Exps, cap \in BOOLEAN : NoneLive /\ Construct(MainThread, e, cap)
  \/ \E e \in Exps : EndCall(MainThread, e)
  \/ EndStep(MainThread)
  \/ \E e \in Exps : WorkerStep(e)
  \/ Tick

SpecClock == Init /\ [][NextClock]_vars

\* Every experiment constructed after e has ended: e is the innermost one.
Innermost(e) ==
  \A f \in Exps : (f > e /\ constructed[f]) => first_end[f] = "returned"

\* The caller nests its experiments: it ends the one constructed last first,
\* and binds the process streams itself only before the first constructor.
NextNested ==
  \/ (\A e \in Exps : ~constructed[e]) /\ SetStreams(MainThread)
  \/ \E e \in Exps, cap \in BOOLEAN : Construct(MainThread, e, cap)
  \/ \E e \in Exps : Innermost(e) /\ EndCall(MainThread, e)
  \/ EndStep(MainThread)
  \/ \E e \in Exps : WorkerStep(e)

SpecNested == Init /\ [][NextNested]_vars

\* The caller thread and the worker of one experiment after the other: the
\* caller ends the experiment while the run loop reads the runner through
\* its methods.
NextSignal ==
  \/ \E e \in Exps, cap \in BOOLEAN : NoneLive /\ Construct(MainThread, e, cap)
  \/ \E e \in Exps : EndCall(MainThread, e)
  \/ EndStep(MainThread)
  \/ \E e \in Exps : WorkerStep(e)
  \/ \E e \in Exps : PollStep(e)

SpecSignal == Init /\ [][NextSignal]_vars

\* ------------------------------------------------------------------ claims

\* C1: the first end() invocation on an experiment returns only after the
\* worker has put its token on done_chan, and the worker puts the token only
\* after the run loop has returned.
EndReturnsAfterPost ==
  \A e \in Exps :
    /\ first_end[e] = "returned" => puts[e] > 0 /\ gets[e] > 0
    /\ puts[e] > 0 => RunLoopReturned(e)

\* A first end() has returned, having taken the worker's token.
EndReturnedWitness ==
  \E e \in Exps :
    /\ first_end[e] = "returned"
    /\ worker[e] = "exited"
    /\ last[MainThread] = [op |-> "end", e |-> e, ret |-> RetNone]
\* What a caller can observe of experiment e and of the process.
Observable(e) ==
  << ended[e], runner[e], sys_stdout, sys_stderr, done_chan[e] >>

\* C2: an end() called by the thread whose earlier end() on the same
\* experiment has returned comes back at once: it assigns neither stream,
\* writes no field of the runner, takes nothing from done_chan and does not
\* wait, whatever the process streams are bound to by then.
SecondEndIsNoOp ==
  [][ \A e \in Exps :
        (first_end[e] = "returned" /\ EndCall(MainThread, e)) =>
          /\ Observable(e)' = Observable(e)
          /\ UNCHANGED << lock, gets, puts, restores >>
          /\ thread'[MainThread].at = "idle"
          /\ last'[MainThread] = [op |-> "end_noop", e |-> e, ret |-> RetNone]
    ]_vars

\* The only experiment has ended, the caller has bound the streams itself
\* since, and a second end() has returned without restoring them.
SecondEndWitness ==
  \E e \in Exps :
    /\ \A f \in Exps : constructed[f] <=> f = e
    /\ capture_io[e]
    /\ first_end[e] = "returned"
    /\ last[MainThread] = [op |-> "end_noop", e |-> e, ret |-> RetNone]
    /\ << sys_stdout, sys_stderr >> = << UserOut, UserErr >>
    /\ << old_out[e], old_err[e] >> = << OrigOut, OrigErr >>
    /\ restores[e] = 1

\* C4: for a capturing experiment, with no one else assigning the process
\* streams: from the constructor until end() is called the streams are its
\* two buffers, distinct from each other and from the streams it found; once
\* end() has returned they are the streams that were in place when the
\* constructor was called; and the restoring assignment runs at most once,
\* exactly once when end() has returned.
CaptureThenRestore ==
  \A e \in Exps :
    (constructed[e] /\ capture_io[e] /\ ~foreign[e]) =>
      /\ first_end[e] = "none" =>
           /\ << sys_stdout, sys_stderr >> = OutBuffers(e)
           /\ sys_stdout # sys_stderr
           /\ {sys_stdout, sys_stderr} \cap {before[e][1], before[e][2]} = {}
      /\ first_end[e] = "returned" =>
           /\ << sys_stdout, sys_stderr >> = before[e]
           /\ restores[e] = 1
      /\ restores[e] <= 1

\* A capturing experiment found streams of the caller's, has ended, and end()
\* was called on it again.
CaptureRestoredWitness ==
  \E e \in Exps :
    /\ constructed[e] /\ capture_io[e] /\ ~foreign[e]
    /\ before[e] = << UserOut, UserErr >>
    /\ first_end[e] = "returned"
    /\ last[MainThread] = [op |-> "end_noop", e |-> e, ret |-> RetNone]
    /\ << sys_stdout, sys_stderr >> = << UserOut, UserErr >>

\* C10: for an experiment constructed with capture_io false, with no one else
\* assigning the process streams: the constructor leaves the streams as they
\* were, and after end() has returned they are still the streams that were in
\* place when the constructor was called.
NoCaptureKeepsStreams ==
  \A e \in Exps :
    (constructed[e] /\ ~capture_io[e] /\ ~foreign[e]) =>
      << sys_stdout, sys_stderr >> = before[e]

\* An experiment without capture has ended, after a capturing one was
\* constructed before it.
NoCaptureWitness ==
  \E e \in Exps :
    /\ constructed[e] /\ ~capture_io[e] /\ ~foreign[e]
    /\ first_end[e] = "returned"
    /\ restores[e] = 1
    /\ before[e] \notin { << OrigOut, OrigErr >>, << UserOut, UserErr >> }
\* The caller thread is inside metric, param or iter on e.
InCall(e) ==
  /\ thread[MainThread].e = e
  /\ thread[MainThread].op \in {"metric", "param", "iter"}

\* C3: once end() has returned on an experiment, every call of metric, param
\* or iter on it hands nothing to the delivery client, logs exactly one
\* warning, returns None without raising and leaves the experiment, the
\* runner, the streams and done_chan as they were; no such call is ever about
\* to forward.
CallsAfterEndOnlyWarn ==
  /\ [] (\A e \in Exps :
           (first_end[e] = "returned" /\ InCall(e)) =>
             thread[MainThread].at = "check")
  /\ [][ \A e \in Exps :
           (first_end[e] = "returned" /\ InCall(e)
              /\ thread'[MainThread] # thread[MainThread]) =>
             /\ hd_client' = hd_client
             /\ warnings' = [warnings EXCEPT ![e] = @ + 1]
             /\ thread'[MainThread] = Idle
             /\ last'[MainThread] =
                  [op |-> thread[MainThread].op, e |-> e, ret |-> RetNone]
             /\ Observable(e)' = Observable(e)
             /\ UNCHANGED << expVars, lock, gets, puts, restores, cbVars >>
       ]_vars

\* After end() returned, two calls have each logged a warning, the last of
\* them an iter, and the delivery client has received nothing.
CallsAfterEndWitness ==
  \E e \in Exps :
    /\ first_end[e] = "returned"
    /\ warnings[e] = 2
    /\ hd_client[e] = << >>
    /\ last[MainThread] = [op |-> "iter", e |-> e, ret |-> RetNone]

\* C5: a call of metric, param or iter on an experiment that is not ended
\* hands the delivery client the matching operation with the call's own
\* arguments exactly once, returns what that operation gave back, logs no
\* warning, and never waits: it has a step to take whenever it is under way,
\* and its steps touch neither a lock nor done_chan.
CallsBeforeEndForward ==
  /\ [] (\A e \in Exps :
           (InCall(e) /\ thread[MainThread].at \in {"check", "fwd"}) =>
             ENABLED (Check(MainThread)
                        \/ \E r \in ClientResults : Forward(MainThread, r)))
  /\ [][ \A e \in Exps :
           (InCall(e) /\ ~ended[e]
              /\ thread'[MainThread] # thread[MainThread]) =>
             /\ UNCHANGED << warnings, lock, runner, done_chan, gets, puts >>
             /\ thread[MainThread].at = "check" =>
                  /\ hd_client' = hd_client
                  /\ thread'[MainThread] =
                       [thread[MainThread] EXCEPT !.at = "fwd"]
             /\ thread[MainThread].at = "fwd" =>
                  /\ Len(hd_client[e]) = thread[MainThread].base
                  /\ hd_client' = [hd_client EXCEPT ![e] =
                                     Append(@, Head(thread[MainThread].todo))]
                  /\ hd_client'[e][Len(hd_client'[e])].op = thread[MainThread].op
                  /\ thread'[MainThread] = Idle
                  /\ last'[MainThread].op = thread[MainThread].op
                  /\ last'[MainThread].ret \in ClientResults
       ]_vars
  /\ [][ \A r \in ClientResults :
           Forward(MainThread, r) => last'[MainThread].ret = r ]_vars

\* A metric call on a live experiment has returned the value the delivery
\* client gave back, after the client received the call with log=False.
CallsForwardedWitness ==
  \E e \in Exps :
    /\ ~ended[e]
    /\ warnings[e] = 0
    /\ hd_client[e] = << Call("metric", "loss", PyNum(0), FALSE) >>
    /\ last[MainThread] = [op |-> "metric", e |-> e, ret |-> RetVal(1)]
\* C6: with every thread scheduled fairly, a first end() that is under way
\* on an experiment whose worker has put its token eventually returns; so a
\* first end() that never returns is one whose worker never puts the token.
PostedEndReturns ==
  \A e \in Exps :
    (first_end[e] = "running" /\ puts[e] > 0) ~> (first_end[e] = "returned")

\* Both cases occur: a first end() returned after the token was put, and
\* another experiment's run loop raised, so that its end() waits for good.
PostedEndWitness ==
  \E e, f \in Exps :
    /\ first_end[e] = "returned" /\ puts[e] = 1
    /\ worker[f] = "dead"
    /\ thread[MainThread].at = "end_wait" /\ thread[MainThread].e = f
\* The import outcomes recorded for e, as a set.
LoadOutcomes(e) == { loads[e][i] : i \in 1..Len(loads[e]) }

\* C7: when the first read of the keras property finds keras not installed
\* (the import raises ImportError), that import is the only one the instance
\* ever attempts: the entry is recorded as False, and every read, the first
\* and the later ones, returns None.
UnavailableLoadsOnce ==
  \A e \in Exps :
    (loads[e] # << >> /\ loads[e][1] = "ImportError") =>
      /\ Len(loads[e]) = 1
      /\ DOMAIN callbacks[e] = {KERAS} /\ callbacks[e][KERAS] = PyFalse
      /\ ~(thread[MainThread].at = "keras_import" /\ thread[MainThread].e = e)
      /\ (last[MainThread].op \in {"keras", "keras_cached"}
            /\ last[MainThread].e = e) => last[MainThread].ret = RetNone

\* The property of an instance without keras was read again after the read
\* that attempted the import: still one import, and None came back from the
\* cache.
UnavailableWitness ==
  \E e \in Exps :
    /\ loads[e] = << "ImportError" >>
    /\ last[MainThread] = [op |-> "keras_cached", e |-> e, ret |-> RetNone]

\* C8 as stated: no read of the keras property raises, whatever way the
\* import fails, and every failed import leaves the entry unavailable.
AccessorNeverRaises ==
  \A e \in Exps :
    /\ last[MainThread].op \in {"keras", "keras_cached"}
         => last[MainThread].ret # RetRaise
    /\ (loads[e] # << >> /\ loads[e][Len(loads[e])] # "ok"
          /\ thread[MainThread].at = "idle") =>
         DictGet(callbacks[e], KERAS, RetNone) = PyFalse

\* C8 amended: a read of the keras property whose import raises ImportError
\* does not raise: it returns None and the entry is False from then on, with
\* no further import.  A read raises only when the import raised another
\* exception, and then the entry is left as it was.
ImportErrorIsCached ==
  /\ [] (\A e \in Exps :
           /\ "ImportError" \in LoadOutcomes(e) =>
                /\ loads[e][Len(loads[e])] = "ImportError"
                /\ DictGet(callbacks[e], KERAS, RetNone) = PyFalse
                /\ ~(thread[MainThread].at = "keras_import"
                       /\ thread[MainThread].e = e)
           /\ (last[MainThread] = [op |-> "keras", e |-> e, ret |-> RetRaise]) =>
                "OtherError" \in LoadOutcomes(e))
  /\ [][ \A e \in Exps :
           /\ DictGet(callbacks[e], KERAS, RetNone) = PyFalse =>
                /\ callbacks'[e] = callbacks[e]
                /\ loads'[e] = loads[e]
           /\ (thread[MainThread].at = "keras_import" /\ thread[MainThread].e = e
                 /\ Len(loads'[e]) > Len(loads[e])) =>
                LET outcome == loads'[e][Len(loads'[e])] IN
                /\ outcome = "ImportError" =>
                     /\ last'[MainThread].ret = RetNone
                     /\ DictGet(callbacks'[e], KERAS, RetNone) = PyFalse
                /\ outcome = "OtherError" =>
                     /\ last'[MainThread].ret = RetRaise
                     /\ callbacks'[e] = callbacks[e]
       ]_vars

\* An import raised another exception and the read raised; the next read's
\* import raised ImportError and the entry became False.
ImportErrorWitness ==
  \E e \in Exps :
    /\ loads[e] = << "OtherError", "ImportError" >>
    /\ callbacks[e][KERAS] = PyFalse
    /\ last[MainThread] = [op |-> "keras", e |-> e, ret |-> RetNone]
\* The payload has an entry k whose value is not None.
HasValue(logs, k) == logs.given /\ k \in DOMAIN logs.d /\ logs.d[k] # PyNone

\* The metric reports an epoch event with this payload is to produce.
ExpectedReports(logs) ==
  (IF HasValue(logs, "val_accuracy")
     THEN << Call("metric", "val_accuracy", logs.d["val_accuracy"], TRUE) >>
     ELSE << >>)
  \o (IF HasValue(logs, "val_loss")
     THEN << Call("metric", "val_loss", logs.d["val_loss"], TRUE) >>
     ELSE << >>)

\* C9: an epoch event on the adapter of an experiment that is not ended, with
\* any payload (None, empty or a dict), hands the delivery client a metric
\* val_accuracy exactly when the payload has a val_accuracy that is not None
\* and a metric val_loss exactly when it has a val_loss that is not None,
\* each with the payload's value (0 included), val_accuracy first, and
\* nothing else; it logs no warning.
EpochEndReports ==
  [][ LET f == thread[MainThread] IN
      (f.op = "epoch" /\ thread'[MainThread].at = "idle" /\ ~ended[f.e]) =>
        /\ Len(hd_client'[f.e]) >= f.base
        /\ SubSeq(hd_client'[f.e], 1, f.base) = SubSeq(hd_client[f.e], 1, f.base)
        /\ SubSeq(hd_client'[f.e], f.base + 1, Len(hd_client'[f.e]))
             = ExpectedReports(f.logs)
        /\ warnings' = warnings
        /\ last'[MainThread] = [op |-> "epoch", e |-> f.e, ret |-> RetNone]
    ]_vars

\* An event whose payload has val_accuracy 0, val_loss 1 and another entry is
\* under way on a live experiment: the client has received val_accuracy with
\* the value 0 and val_loss is next.
EpochEndWitness ==
  LET f == thread[MainThread] IN
  /\ f.op = "epoch" /\ f.at = "fwd"
  /\ ~ended[f.e]
  /\ f.logs.given
  /\ f.logs.d = ("val_accuracy" :> PyNum(0)) @@ ("val_loss" :> PyNum(1))
                  @@ ("loss" :> PyNum(1))
  /\ hd_client[f.e] = << Call("metric", "val_accuracy", PyNum(0), TRUE) >>
  /\ f.todo = << Call("metric", "val_loss", PyNum(1), TRUE) >>

\* The threads that are inside end() on e, past the check of line 152.
InEnd(e) ==
  { t \in Threads : thread[t].op = "end" /\ thread[t].e = e }

\* C11: with end() called on one experiment from several threads at once, in
\* every interleaving a single invocation gets past the check of _ended, so
\* the streams are restored once and the other invocation is a no-op; and no
\* invocation is left waiting on done_chan after the worker's only token has
\* been put and taken.
ConcurrentEndOnce ==
  \A e \in Exps :
    /\ Cardinality(InEnd(e)) <= 1
    /\ restores[e] <= 1
    /\ \A t \in InEnd(e) :
         ~(thread[t].at = "end_wait" /\ puts[e] > 0 /\ gets[e] > 0
             /\ done_chan[e] = << >>)

\* C12: with metric, param or iter called on one thread and end() on another,
\* in every interleaving the delivery client receives no call of an
\* experiment once _ended is set, and so none once end() has returned.
NoForwardAfterEnded ==
  [][ \A e \in Exps :
        /\ ended[e] => hd_client'[e] = hd_client[e]
        /\ first_end[e] = "returned" => hd_client'[e] = hd_client[e]
    ]_vars

\* C13: end() restores the saved streams, then sets exit_cleanly, then sets
\* done, then waits on done_chan.  So for every experiment: done is False
\* from construction until end() is called; done set means _ended is set and
\* the streams have been assigned the saved ones, which they still are while
\* no later experiment exists; and is_done() never returns done = True
\* together with exit_cleanly = False.
EndOrderKeepsDone ==
  \A e \in Exps :
    /\ first_end[e] = "none" => ~runner[e].done
    /\ runner[e].done => ended[e] /\ restores[e] >= 1 /\ runner[e].exit_cleanly
    /\ (runner[e].done /\ \A f \in Exps : f > e => ~constructed[f]) =>
         << sys_stdout, sys_stderr >> = << old_out[e], old_err[e] >>
    /\ \A t \in InEnd(e) :
         /\ thread[t].at \in {"end_set", "end_lock", "end_out", "end_err"}
              => ~runner[e].done
         /\ thread[t].at \in {"end_clean", "end_done"}
              => restores[e] >= 1 /\ ~runner[e].done
         /\ thread[t].at \in {"end_unlock", "end_wait"} => runner[e].done
    /\ ~(polled[e].done /\ ~polled[e].exit_cleanly)

\* While end() waits on a capturing experiment whose run loop is still
\* running, is_done() has returned (True, True) to the worker.
EndOrderWitness ==
  \E e \in Exps :
    /\ capture_io[e]
    /\ thread[MainThread].at = "end_wait" /\ thread[MainThread].e = e
    /\ worker[e] = "run"
    /\ polled[e] = [at |-> "idle", exit_cleanly |-> TRUE, done |-> TRUE,
                    returned |-> TRUE]
    /\ << sys_stdout, sys_stderr >> = << OrigOut, OrigErr >>

\* C14: the worker records the start time before it runs the loop and the
\* end time after the loop has returned, and puts its token only after the
\* end time is recorded; so once an end() that waited has returned,
\* get_start_and_end_time() gives two values that are not None, the first
\* no later than the second, the clock never going back.
TimesSetWhenEnded ==
  \A e \in Exps :
    LET times == GetStartAndEndTime(e) IN
    /\ worker[e] \in {"none", "spawned"} => times = << PyNone, PyNone >>
    /\ worker[e] \in {"run", "hung", "dead", "ran"} =>
         times[1] # PyNone /\ times[2] = PyNone
    /\ worker[e] \in {"stamped", "exited"} =>
         times[1] # PyNone /\ times[2] # PyNone
    /\ puts[e] > 0 => times[2] # PyNone
    /\ (first_end[e] = "returned"
          \/ \E t \in Threads : last[t].op = "end" /\ last[t].e = e) =>
         /\ times[1] # PyNone /\ times[2] # PyNone
         /\ times[1][1] <= times[2][1]

\* end() has returned on an experiment whose run loop started at time 1 and
\* returned at time 2.
TimesSetWitness ==
  \E e \in Exps :
    /\ last[MainThread] = [op |-> "end", e |-> e, ret |-> RetNone]
    /\ GetStartAndEndTime(e) = << PyNum(1), PyNum(2) >>

\* The worker of e is inside is_done(), holding the runner's lock.
InIsDone(e) ==
  polled[e].at \in {"is_done_clean", "is_done_done", "is_done_unlock"}

\* C15: done and exit_cleanly are read and written only by a thread that
\* holds the runner's own lock, so is_done() on the worker never runs while
\* end() on the caller is about to write either field or is between its two
\* writes.
RunnerFieldsUnderOwnLock ==
  \A e \in Exps :
    /\ InIsDone(e) => runner[e].lock = WorkerThread(e)
    /\ \A t \in InEnd(e) :
         thread[t].at \in {"end_clean", "end_done"} =>
           /\ runner[e].lock = t
           /\ ~InIsDone(e)

\* C16: for an experiment constructed with capture_io false, the assignment
\* of line 157 leaves both process streams bound to the objects they were
\* bound to when end() was called, whatever happened since the constructor,
\* the construction of a capturing experiment included.
NoCaptureEndIsIdentity ==
  [][ LET f == thread[MainThread] IN
      (f.op = "end" /\ f.at \in {"end_out", "end_err"} /\ ~capture_io[f.e]) =>
        /\ sys_stdout' = sys_stdout
        /\ sys_stderr' = sys_stderr
    ]_vars

\* The worker of e exists from the constructor on and before any call on e,
\* and done_chan never holds or has carried more than one token.
OneWorkerOneSlot(e) ==
  /\ constructed[e] <=> worker[e] # "none"
  /\ (hd_client[e] # << >> \/ warnings[e] > 0 \/ InCall(e)) => worker[e] # "none"
  /\ Len(done_chan[e]) <= 1
  /\ puts[e] <= 1
  /\ gets[e] <= puts[e]
  /\ Len(done_chan[e]) = puts[e] - gets[e]

\* C17 as stated: each experiment has one worker, started by the constructor
\* before any call of metric, param or iter; done_chan holds at most one
\* token, at most one is taken, and over the whole run exactly one is put: a
\* worker with no step left to take has put one.
WorkerPutsExactlyOne ==
  \A e \in Exps :
    /\ OneWorkerOneSlot(e)
    /\ constructed[e] => (puts[e] = 1 \/ ENABLED WorkerStep(e))

\* C17 amended: each experiment has one worker, started by the constructor
\* before any call of metric, param or iter; done_chan holds at most one
\* token, at most one is put and at most one is taken; the token is put
\* exactly when the run loop has returned and the worker has run to its end.
WorkerPutsAtMostOne ==
  \A e \in Exps :
    /\ OneWorkerOneSlot(e)
    /\ puts[e] = 1 <=> worker[e] = "exited"
    /\ (constructed[e] /\ ~ENABLED WorkerStep(e)) =>
         worker[e] \in {"exited", "hung", "dead"}

\* One experiment was reported to, ended and its token put and taken; the
\* run loop of the next one raised, so its worker is gone without a token.
WorkerPutsWitness ==
  \E e, f \in Exps :
    /\ puts[e] = 1 /\ gets[e] = 1 /\ hd_client[e] # << >>
    /\ worker[f] = "dead" /\ puts[f] = 0 /\ done_chan[f] = << >>

\* The registry entry of e: None (not attempted), False (unavailable) or an
\* adapter (active).
Entry(e) == DictGet(callbacks[e], KERAS, RetNone)

\* C18: the registry entry of an experiment only ever changes from not
\* attempted to an adapter or from not attempted to unavailable; once it is an
\* adapter, every read of the property returns that same instance, which is
\* bound to the experiment, and no further import is attempted.
EntryMovesOnce ==
  /\ [] (\A e \in Exps :
           /\ Entry(e).k \in {"None", "False", "adapter"}
           /\ Entry(e).k = "adapter" =>
                /\ Entry(e).exp = e
                /\ adapters[e] = 1
                /\ ~(thread[MainThread].at = "keras_import"
                       /\ thread[MainThread].e = e)
                /\ (last[MainThread].op \in {"keras", "keras_cached"}
                      /\ last[MainThread].e = e
                      /\ last[MainThread].ret.k = "adapter") =>
                     last[MainThread].ret = Entry(e))
  /\ [][ \A e \in Exps :
           /\ Entry(e)' # Entry(e) =>
                /\ Entry(e) = RetNone
                /\ Entry(e)' = PyFalse \/ Entry(e)'.k = "adapter"
           /\ Entry(e).k = "adapter" =>
                /\ loads'[e] = loads[e]
                /\ KerasGet(MainThread, e) =>
                     /\ thread'[MainThread] = Idle
                     /\ last'[MainThread] =
                          [op |-> "keras_cached", e |-> e, ret |-> Entry(e)]
       ]_vars

\* The first import of the second experiment raised; the next read imported
\* keras and made the adapter, and the read after that returned the same
\* adapter from the registry.
EntryMovesWitness ==
  \E e \in Exps :
    /\ \E f \in Exps : f < e
    /\ loads[e] = << "OtherError", "ok" >>
    /\ Entry(e) = RetAdapter(e, 1)
    /\ last[MainThread] = [op |-> "keras_cached", e |-> e, ret |-> RetAdapter(e, 1)]

\* The threads that can hold a lock, and the locks thread h holds.
Holders == Threads \cup { WorkerThread(e) : e \in Exps }
Held(h) ==
  { << "experiment", e >> : e \in { f \in Exps : lock[f] = h } }
    \cup { << "runner", e >> : e \in { f \in Exps : runner[f].lock = h } }

\* C19: no thread holds the Experiment lock and the runner's lock together,
\* and a thread waiting on done_chan holds neither; so a held lock is always
\* held by a thread that can take its next step, and no state is a deadlock
\* of the caller and the worker over the locks.
LocksNeverNested ==
  /\ \A h \in Holders : Cardinality(Held(h)) <= 1
  /\ \A t \in Threads : thread[t].at = "end_wait" => Held(t) = {}
  /\ \A e \in Exps :
       /\ lock[e] \in Threads \cup {0}
       /\ runner[e].lock \in {0, WorkerThread(e)}
       /\ lock[e] # 0 =>
            /\ thread[lock[e]].e = e
            /\ thread[lock[e]].at \in
                 {"end_out", "end_err", "end_clean", "end_done", "end_unlock"}
            /\ ENABLED EndStep(lock[e])
       /\ runner[e].lock # 0 => ENABLED PollStep(e)

\* The caller is inside the with block of end() while the worker is inside
\* is_done(): each holds one of the two locks of the same experiment.
LocksWitness ==
  \E e \in Exps :
    /\ lock[e] = MainThread
    /\ thread[MainThread].at = "end_done"
    /\ runner[e].lock = WorkerThread(e)
    /\ polled[e].at = "is_done_done"

\* C20: with experiments ended in nested order (the last constructed ended
\* first), each end() leaves the process streams bound to the objects that
\* were in place when its experiment was constructed; so after the outermost
\* one has ended, with every experiment ended, they are the ones in place
\* before the first constructor.
NestedEndsRestore ==
  /\ \A e \in Exps : \A t \in InEnd(e) :
       thread[t].at \in {"end_clean", "end_done", "end_unlock", "end_wait"}
         => << sys_stdout, sys_stderr >> = before[e]
  /\ ((\E e \in Exps : constructed[e])
        /\ \A e \in Exps : constructed[e] => first_end[e] = "returned") =>
       << sys_stdout, sys_stderr >> = before[1]

\* Every experiment captures and has ended, the later ones constructed while
\* the earlier ones were live; the streams are again the ones the caller had
\* bound before the first constructor.
NestedEndsWitness ==
  /\ \A e \in Exps :
       /\ capture_io[e] /\ first_end[e] = "returned" /\ restores[e] = 1
       /\ e > 1 => before[e] = OutBuffers(e - 1)
  /\ before[1] = << UserOut, UserErr >>
  /\ << sys_stdout, sys_stderr >> = << UserOut, UserErr >>

====
